---- MODULE Spec2Model ----
(***************************************************************************)
(* Model of the agent loop of llm_deep_recall (src/ai_agent.py).           *)
(*                                                                         *)
(* Texts are sequences of tokens.  A token is either one character of the  *)
(* text (a parenthesis, a quote, a line break, a blank, the word character *)
(* "a") or an indivisible run of characters that the code only ever treats *)
(* as a whole (a tool name, the fence marker, a fixed phrase of the        *)
(* program).  The regular expressions and the scans of the code are        *)
(* translated to operators over token sequences.                           *)
(***************************************************************************)
EXTENDS Integers, Sequences, FiniteSets, TLC

(***************************************************************************)
(* Bounds of the model                                                     *)
(***************************************************************************)
\* largest max_iterations an agent is constructed with
MaxIter == 3
\* largest history_limit an agent is constructed with
MaxK == 1
\* number of send_message calls in one behaviour
MaxTurns == 2
\* longest reply argument X drawn for the reply texts
MaxArgLen == 2

(***************************************************************************)
(* Tokens                                                                  *)
(***************************************************************************)
LP == "("
RP == ")"
SQ == "'"
DQ == "\""
NL == "\n"
SP == " "
\* the fence marker (three backquotes) and the language tag that follows it
BT == "FENCE"
PY == "python"

\* tokens made of word characters only (\w+)
WordTokens ==
    {"reply", "sumar", "restar", "dividir", "a", "1", "10", "2", "0", PY,
     "segun", "Segun"}

IsWord(t) == t \in WordTokens

\* str.strip() and \s : blanks and line breaks
IsSpace(t) == t \in {SP, NL}

MinOf(S) == CHOOSE x \in S : \A y \in S : x <= y

MaxOf(S) == CHOOSE x \in S : \A y \in S : x >= y

\* str.strip()
Strip(s) ==
    LET idx == {i \in 1..Len(s) : ~IsSpace(s[i])}
    IN  IF idx = {} THEN <<>> ELSE SubSeq(s, MinOf(idx), MaxOf(idx))

\* str.split('\n')
RECURSIVE SplitLines(_)
SplitLines(s) ==
    LET nls == {i \in 1..Len(s) : s[i] = NL}
    IN  IF nls = {} THEN <<s>>
        ELSE <<SubSeq(s, 1, MinOf(nls) - 1)>>
                 \o SplitLines(SubSeq(s, MinOf(nls) + 1, Len(s)))

\* variant of Lower: the text as it is
LowerIdentity(s) == s

\* str.lower(), on the tokens that have an upper-case letter
Lower(s) == [i \in 1..Len(s) |-> IF s[i] = "Segun" THEN "segun" ELSE s[i]]

\* phrase in text
Contains(text, phrase) ==
    \E i \in 1..(Len(text) - Len(phrase) + 1) :
        SubSeq(text, i, i + Len(phrase) - 1) = phrase

\* "sep".join(parts)
RECURSIVE Join(_, _)
Join(sep, parts) ==
    IF parts = <<>> THEN <<>>
    ELSE IF Len(parts) = 1 THEN parts[1]
    ELSE parts[1] \o sep \o Join(sep, Tail(parts))

\* length of the longest prefix of s made of word tokens
WordRun(s) ==
    LET ns == {n \in 0..Len(s) : \A i \in 1..n : IsWord(s[i])}
    IN  MaxOf(ns)

\* re.match(r'(\w+)\((.*)\)', s): the word run, an opening parenthesis
\* right after it, and the last closing parenthesis that no line break
\* separates from the opening one ('.' does not match a line break)
MatchCall(s) ==
    LET n      == WordRun(s)
        closes == {j \in (n + 2)..Len(s) :
                      /\ s[j] = RP
                      /\ \A k \in (n + 2)..(j - 1) : s[k] # NL}
    IN  IF n >= 1 /\ Len(s) >= n + 1 /\ s[n + 1] = LP /\ closes # {}
        THEN [ok |-> TRUE, name |-> SubSeq(s, 1, n),
              args |-> SubSeq(s, n + 2, MaxOf(closes) - 1)]
        ELSE [ok |-> FALSE, name |-> <<>>, args |-> <<>>]

(***************************************************************************)
(* Construction: the tools and the system prompt                           *)
(***************************************************************************)
\* a callable: its __name__ and where it comes from, the caller or the
\* closure of _add_reply_function
Tool(name, origin) == [name |-> name, origin |-> origin]

\* the reply function defined in _add_reply_function
BuiltinReply == Tool("reply", "builtin")

\* the tools the caller hands to the constructor of the agent specification
CallerTools == <<Tool("sumar", "caller")>>

\* variant of AddReplyFunction: reply is put in front of the tools
AddReplyFunctionFirst(tl) == <<BuiltinReply>> \o tl

\* _add_reply_function: the built-in reply is appended to the tools
AddReplyFunction(tl) == Append(tl, BuiltinReply)

\* self.tools = tools or []: self.tools is the list object of the caller,
\* unless that list is empty (or None was passed), when it is a new list
SharesList(tl) == tl # <<>>

\* the list object of the caller after a construction with it: the built-in
\* reply was appended to self.tools, which is that object when it is shared
CallerListAfter(tl) == IF SharesList(tl) THEN AddReplyFunction(tl) ELSE tl

\* self.tools of the agent specification
tools == AddReplyFunction(CallerTools)

RECURSIVE Dedup(_)
\* first occurrences, in order
Dedup(s) ==
    IF s = <<>> THEN <<>>
    ELSE LET r == Dedup(SubSeq(s, 1, Len(s) - 1))
             x == s[Len(s)]
         IN  IF \E i \in 1..Len(r) : r[i] = x THEN r ELSE Append(r, x)

\* the __name__ of every tool of a list
Names(tl) == [i \in 1..Len(tl) |-> tl[i].name]

\* {tool.__name__: tool for tool in self.tools}: the last tool of a name
\* is the one the name resolves to
ToolsRegistry(tl) ==
    [n \in {tl[i].name : i \in 1..Len(tl)} |->
        tl[MaxOf({i \in 1..Len(tl) : tl[i].name = n})]]

\* list(self.tools_registry.keys()): a dict keeps the first position of a key
RegistryKeysOf(tl) == Dedup(Names(tl))

RegistryKeys == RegistryKeysOf(tools)

\* func_name in self.tools_registry, func_name being a run of word tokens
InRegistryOf(tl, name) ==
    \E i \in 1..Len(tl) : name = <<tl[i].name>>

InRegistry(name) == InRegistryOf(tools, name)

\* _generate_tools_documentation over self.tools
GenerateToolsDocumentation(tl) ==
    IF tl = <<>> THEN <<>>
    ELSE <<"HERRAMIENTAS DISPONIBLES:", NL, "====", NL>>
         \o Join(<<NL>>, [i \in 1..Len(tl) |->
                <<"* ", tl[i].name, ":", NL, "  Description: doc", NL,
                  "  Usage: ", tl[i].name, "(arguments)">>])
         \o <<NL, "REMEMBER: Only YOU can execute these tools">>

tools_documentation == GenerateToolsDocumentation(tools)

base_system_prompt == <<"Eres un asistente IA">>

\* the system prompt for a tools documentation
SystemPromptOf(documentation) ==
    IF documentation # <<>>
    THEN base_system_prompt \o <<NL, NL>> \o documentation
    ELSE base_system_prompt

system_prompt == SystemPromptOf(tools_documentation)

Msg(role, content) == [role |-> role, content |-> content]

\* the instruction message every history starts with
SystemMessage == Msg("system", system_prompt)

(***************************************************************************)
(* _execute_function                                                       *)
(***************************************************************************)
\* what evaluating and running a call does: it returns a value, of which
\* text is the str(), or raises an exception, of which text is the str()
Value(text) == [raised |-> FALSE, text |-> text]

Raise(text) == [raised |-> TRUE, text |-> text]

\* what a call of a caller tool can do, nothing being known of the tool
ToolOutcomes == {Value(<<"value">>), Raise(<<"exc">>)}

\* the outcome handed over for a call that runs no tool
DefaultOutcome == Value(<<"value">>)

\* the quote handling of the reply branch: one layer of enclosing single
\* quotes, else of double quotes, else the text as it is
StripQuotes(args_str) ==
    LET n == Len(args_str)
    IN  IF n >= 1 /\ args_str[1] = SQ /\ args_str[n] = SQ
        THEN SubSeq(args_str, 2, n - 1)
        ELSE IF n >= 1 /\ args_str[1] = DQ /\ args_str[n] = DQ
        THEN SubSeq(args_str, 2, n - 1)
        ELSE args_str

\* str(list of names)
ListRepr(names) ==
    <<"[">> \o Join(<<",", SP>>, [i \in 1..Len(names) |-> <<SQ, names[i], SQ>>])
            \o <<"]">>

ReplyConfirmation == <<"Respuesta enviada al usuario">>

\* variant of OuterExcept: the exception leaves _execute_function
OuterExceptReraise(e) == [raised |-> TRUE, result |-> e]

\* the except clause of the whole body of _execute_function
OuterExcept(e) ==
    [raised |-> FALSE, result |-> <<"Error procesando funcion: ">> \o e]

\* the except clause around eval
InnerExcept(func_name, e) ==
    <<"Error en argumentos de ">> \o func_name \o <<": ">> \o e
        \o <<". Verifica la sintaxis.">>

\* variant of UnknownToolMessage: the known names are not listed
UnknownToolMessageNoList(tl, func_name) ==
    <<"Error: Funcion '">> \o func_name \o <<"' no encontrada.">>

\* the error text for a name that is not in the registry
UnknownToolMessage(tl, func_name) ==
    <<"Error: Funcion '">> \o func_name
        \o <<"' no encontrada. Herramientas disponibles: ">>
        \o ListRepr(RegistryKeysOf(tl))

\* _execute_function(function_call) of an agent whose self.tools is tl, in
\* the state (rc, fr) of the reply flag and the final response; outcome is
\* what evaluating and running the call does if a tool is called.  called
\* holds the callable that was run, if any; raised tells that an exception
\* left the method.
ExecuteIn(tl, function_call, rc, fr, outcome) ==
    LET Ret(res, c) == [result |-> res, reply_called |-> rc,
                        final_response |-> fr, called |-> c,
                        raised |-> FALSE]
        \* the call of the registered callable func
        Call(func, func_name, args_str) ==
            IF Strip(args_str) = <<>>
            THEN IF outcome.raised
                 THEN [Ret(OuterExcept(outcome.text).result, <<func>>)
                          EXCEPT !.raised = OuterExcept(outcome.text).raised]
                 ELSE Ret(outcome.text, <<func>>)
            ELSE IF outcome.raised
                 THEN Ret(InnerExcept(func_name, outcome.text), <<func>>)
                 ELSE Ret(outcome.text, <<func>>)
        \* the method after the match of the stripped text fc
        Matched(fc, ok, func_name, args_str) ==
            IF ~ok
            THEN Ret(<<"Error: Formato de funcion invalido: ">> \o fc \o
                     <<". Usa el formato: nombre_funcion(argumentos)">>,
                     <<>>)
            ELSE IF ~InRegistryOf(tl, func_name)
            THEN Ret(UnknownToolMessage(tl, func_name), <<>>)
            ELSE IF func_name = <<"reply">>
            THEN [result |-> ReplyConfirmation, reply_called |-> TRUE,
                  final_response |-> StripQuotes(args_str),
                  called |-> <<>>, raised |-> FALSE]
            ELSE Call(ToolsRegistry(tl)[func_name[1]], func_name, args_str)
        Match(fc, m) == Matched(fc, m.ok, m.name, m.args)
        Stripped(fc) == Match(fc, MatchCall(fc))
    IN  Stripped(Strip(function_call))

\* _execute_function of the agent specification
ExecuteFunction(function_call, rc, fr, outcome) ==
    ExecuteIn(tools, function_call, rc, fr, outcome)

(***************************************************************************)
(* The tool dividir of src/tools.py and the evaluation of its calls        *)
(***************************************************************************)
\* the integer literals of the argument texts
NumberTokens == {"10", "2", "0"}

NumVal(t) == IF t = "10" THEN 10 ELSE IF t = "2" THEN 2 ELSE 0

\* str(a / b) for integers a >= 0 and b > 0 whose quotient has at most one
\* decimal digit
FloatStr(a, b) ==
    <<ToString(a \div b), ".", ToString(((a * 10) \div b) % 10)>>

\* dividir(*vals): the binding of the two parameters, then the body
Dividir(vals) ==
    IF Len(vals) = 0
    THEN Raise(<<"dividir", "() missing 2 required positional arguments: 'a' and 'b'">>)
    ELSE IF Len(vals) = 1
    THEN Raise(<<"dividir", "() missing 1 required positional argument: 'b'">>)
    ELSE IF Len(vals) > 2
    THEN Raise(<<"dividir", "() takes 2 positional arguments but ",
                 ToString(Len(vals)), " were given">>)
    ELSE IF vals[2] = 0
    THEN Raise(<<"No se puede dividir entre cero.">>)
    ELSE Value(FloatStr(vals[1], vals[2]))

RECURSIVE SplitCommas(_)
\* the pieces of an argument text between its commas
SplitCommas(s) ==
    LET cs == {i \in 1..Len(s) : s[i] = ","}
    IN  IF cs = {} THEN <<s>>
        ELSE <<SubSeq(s, 1, MinOf(cs) - 1)>>
                 \o SplitCommas(SubSeq(s, MinOf(cs) + 1, Len(s)))

\* func() when the argument text is blank, else eval("func(args_str)"), for
\* func = dividir and an argument text in which no two word tokens are
\* adjacent: the expression is compiled, the arguments are evaluated from
\* left to right, the function is called
EvalDividir(args_str) ==
    IF Strip(args_str) = <<>> THEN Dividir(<<>>)
    ELSE LET split  == SplitCommas(args_str)
             all    == [i \in 1..Len(split) |-> Strip(split[i])]
             \* one trailing comma is allowed
             pieces == IF Len(all) >= 2 /\ all[Len(all)] = <<>>
                       THEN SubSeq(all, 1, Len(all) - 1) ELSE all
         IN  IF \E i \in 1..Len(pieces) :
                    ~(Len(pieces[i]) = 1 /\ IsWord(pieces[i][1]))
             THEN Raise(<<"invalid syntax">>)
             ELSE IF \E i \in 1..Len(pieces) : pieces[i][1] \notin NumberTokens
             THEN LET i == MinOf({k \in 1..Len(pieces) :
                                     pieces[k][1] \notin NumberTokens})
                  IN  Raise(<<"name '", pieces[i][1], "' is not defined">>)
             ELSE Dividir([i \in 1..Len(pieces) |-> NumVal(pieces[i][1])])

(***************************************************************************)
(* _extract_function_calls                                                 *)
(***************************************************************************)
\* the members of a set of positions, in ascending order
RECURSIVE Ascending(_)
Ascending(S) ==
    IF S = {} THEN <<>>
    ELSE <<MinOf(S)>> \o Ascending(S \ {MinOf(S)})

RECURSIVE Flatten(_)
Flatten(ss) == IF ss = <<>> THEN <<>> ELSE ss[1] \o Flatten(Tail(ss))

\* the stripped lines of a text that look like a call
CallLines(text) ==
    LET lines == SplitLines(text)
    IN  SelectSeq([i \in 1..Len(lines) |-> Strip(lines[i])],
                  LAMBDA line : MatchCall(line).ok)

RECURSIVE CodeBlocks(_, _)
\* re.findall of the fenced-block pattern, from position from on: a fence
\* followed by the tag python, up to the next fence
CodeBlocks(text, from) ==
    LET opens == {i \in from..(Len(text) - 1) :
                     /\ text[i] = BT /\ text[i + 1] = PY
                     /\ \E j \in (i + 2)..Len(text) : text[j] = BT}
    IN  IF opens = {} THEN <<>>
        ELSE LET i == MinOf(opens)
                 j == MinOf({k \in (i + 2)..Len(text) : text[k] = BT})
             IN  <<SubSeq(text, i + 2, j - 1)>> \o CodeBlocks(text, j + 1)

\* Method 1: the call lines of the fenced python blocks
Method1(text) ==
    LET blocks == CodeBlocks(text, 1)
    IN  Flatten([b \in 1..Len(blocks) |-> CallLines(Strip(blocks[b]))])

RECURSIVE ScanParens(_, _, _)
\* the parenthesis count from pos on: the position where the count returns
\* to zero, 0 when it never does
ScanParens(text, pos, paren_count) ==
    IF pos > Len(text) THEN 0
    ELSE IF text[pos] = LP THEN ScanParens(text, pos + 1, paren_count + 1)
    ELSE IF text[pos] = RP
         THEN IF paren_count - 1 = 0 THEN pos
              ELSE ScanParens(text, pos + 1, paren_count - 1)
    ELSE ScanParens(text, pos + 1, paren_count)

\* the position of the opening parenthesis that \s*\( finds after a name
\* at position i, 0 when there is none
OpenAfter(text, i) ==
    LET ps == {p \in (i + 1)..Len(text) :
                  /\ text[p] = LP
                  /\ \A k \in (i + 1)..(p - 1) : IsSpace(text[k])}
    IN  IF ps = {} THEN 0 ELSE MinOf(ps)

\* Method 2 for one tool name: \bname\s*\( anywhere in the text, each
\* completed by the parenthesis count
DirectCalls(text, func_name) ==
    LET starts == {i \in 1..Len(text) :
                      /\ text[i] = func_name
                      /\ (i = 1 \/ ~IsWord(text[i - 1]))
                      /\ OpenAfter(text, i) # 0}
        found  == SelectSeq(Ascending(starts),
                      LAMBDA i : ScanParens(text, OpenAfter(text, i), 0) # 0)
    IN  [k \in 1..Len(found) |->
            SubSeq(text, found[k],
                   ScanParens(text, OpenAfter(text, found[k]), 0))]

\* Method 2: the registered names, in registry order
Method2(text) ==
    Flatten([t \in 1..Len(RegistryKeys) |-> DirectCalls(text, RegistryKeys[t])])

\* variant of Method3: every call line, registered or not
Method3Unfiltered(text) == CallLines(text)

\* Method 3: the call lines of the text whose name is registered
Method3(text) ==
    SelectSeq(CallLines(text), LAMBDA line : InRegistry(MatchCall(line).name))

\* _extract_function_calls: the three methods, first occurrences kept
ExtractFunctionCalls(text) ==
    Dedup(Method1(text) \o Method2(text) \o Method3(text))

(***************************************************************************)
(* The agent: state                                                        *)
(***************************************************************************)
VARIABLES
    history_limit,        \* constructor argument
    max_iterations,       \* constructor argument
    model_texts,          \* the completions the endpoint can produce
    history,              \* self.history
    reply_called,         \* self._reply_called
    final_response,       \* self._final_response
    pc,                   \* "idle": no call running, "loop": in send_message
    message,              \* send_message: the argument
    current_messages,     \* send_message: the working window
    agent_response,       \* send_message: the completion of the round
    iteration,            \* send_message: the round counter
    consecutive_no_reply, \* send_message: rounds without invocation
    requests,             \* completion requests issued by the turn
    call_rounds,          \* rounds of the turn that had an invocation
    function_calls,       \* the invocations extracted in the last round
    executed,             \* the invocations the dispatch loop of the last
                          \* round executed, in order
    executions,           \* every execution of an invocation in the last
                          \* round, by the dispatch loop (pass 1) and for
                          \* the observation message (pass 2), in order
    http_response,        \* what the endpoint did with the request of the
                          \* last round, if there was one
    failures,             \* the kinds of failure the turn has met
    result,               \* what send_message returned
    outcome,              \* how the turn ended
    hist_before,          \* self.history when send_message began
    pre_trim,             \* self.history of the turn before the trim
    exchanges,            \* the (user, assistant) exchanges completed since
                          \* construction or the last clear_history
    turns,                \* send_message calls begun
    last_op,              \* the last operation called on the agent
    prev_op,              \* the operation called before it
    observed,             \* what the last get_history returned
    caller_tools,         \* constructor argument: the tools of the caller
    running,              \* the thread that is running
    parked,               \* the local variables of the thread that is not
    reply_owner,          \* the thread whose call set the reply flag, 0
                          \* when the flag is not set
    direct,               \* the calls of _execute_function made from
                          \* outside send_message: the call, what the tool
                          \* did and what the method returned
    caller_list,          \* the list object the caller passed to the
                          \* constructor, as it is now
    agents,               \* the further agents constructed with that list
                          \* object, in order of construction
    chat_history,         \* BasicAgent: self.chat_history
    basic_tools,          \* BasicAgent: the keys of self.tools, in order
    chat_call             \* BasicAgent: the last call of chat, its request
                          \* and what it returned

vars == <<history_limit, max_iterations, model_texts, history, reply_called,
          final_response, pc, message, current_messages, agent_response,
          iteration, consecutive_no_reply, requests, call_rounds, function_calls,
          executed, executions, http_response, failures, result, outcome,
          hist_before,
          pre_trim, exchanges, turns, last_op, prev_op, observed,
          caller_tools, running, parked, reply_owner, direct,
          caller_list, agents,
          chat_history, basic_tools, chat_call>>

\* the state of the other objects: the agents that share a list of tools
\* and the agent of the first design
others == <<caller_list, agents, chat_history, basic_tools, chat_call>>

config == <<history_limit, max_iterations, model_texts, caller_tools, direct,
            running, parked, others>>

\* the attributes of the agent that are no constructor argument and the
\* record of its calls
agent_state ==
    <<history, reply_called, final_response, pc, message, current_messages,
      agent_response, iteration, consecutive_no_reply, requests,
      call_rounds, function_calls, executed, executions, http_response,
      failures, result, outcome, hist_before, pre_trim, exchanges, turns,
      last_op, prev_op, observed, reply_owner>>

\* no value: before the first return of send_message or get_history
None == <<"None">>

(***************************************************************************)
(* Inputs                                                                  *)
(***************************************************************************)
\* what the caller sends
UserMessages == {<<"q1">>}

\* reply(qXq) for a quote q and a text X
ReplyText(q, X) == <<"reply", LP, q>> \o X \o <<q, RP>>

\* plain prose, no invocation
TextProse == <<"a">>

\* prose with a final-answer marker, in upper case
TextMarker == <<"Segun", SP, "a">>

\* a call of a registered tool
TextTool == <<"sumar", LP, "1", RP>>

\* two terminal invocations
TextTwoReplies == ReplyText(SQ, <<"a">>) \o <<SP>> \o ReplyText(DQ, <<"1">>)

\* a tool call and, on the next line, two terminal invocations
TextToolThenReply == TextTool \o <<NL>> \o TextTwoReplies

\* a fenced block with a call of a name that is not registered
TextUnknown == <<BT, PY, NL, "restar", LP, "1", RP, NL, BT>>

\* a call of a registered tool whose parentheses hold a line break
TextMalformed == <<"sumar", LP, NL, RP>>

\* a completion with both calls that cannot be dispatched
TextBadCalls == TextUnknown \o <<NL>> \o TextMalformed

\* the completions of the endpoint in the agent specification
Completions ==
    {TextProse, TextMarker, TextTool, ReplyText(SQ, <<"a">>),
     TextToolThenReply}

\* a call of a registered tool without arguments
TextToolNoArgs == <<"sumar", LP, RP>>

\* the completions of the endpoint in the specification of the failures
FailureCompletions == {TextBadCalls, TextToolNoArgs, ReplyText(SQ, <<"a">>)}

\* the text of a failed completion request
TransportError == <<"Error: ", "exc">>

\* variant of GetAgentResponse: a failed request gives the empty text
GetAgentResponseEmptyOnFailure(response) ==
    IF response.failed THEN <<>> ELSE response.text

\* _get_agent_response: the text streamed by the endpoint, or the error text
\* when the request fails
GetAgentResponse(response) ==
    IF response.failed THEN TransportError ELSE response.text

\* what the endpoint can do with a request: answer one of texts, or fail
Responses(texts) ==
    {[failed |-> FALSE, text |-> t] : t \in texts}
        \cup {[failed |-> TRUE, text |-> <<>>]}

\* the completions of the endpoint in the specification of the reply texts:
\* reply('X') and reply("X") for every text X of at most MaxArgLen tokens
ArgTokens == {"a", LP, RP, SQ, DQ, NL, SP}

RECURSIVE TextsUpTo(_)
TextsUpTo(n) ==
    IF n = 0 THEN {<<>>}
    ELSE LET shorter == TextsUpTo(n - 1)
         IN  shorter \cup {Append(X, t) : X \in shorter, t \in ArgTokens}

ArgTexts == TextsUpTo(MaxArgLen)

ReplyTexts == {ReplyText(q, X) : q \in {SQ, DQ}, X \in ArgTexts}

\* _extract_function_calls of every completion of the model, computed once
AllTexts ==
    Completions \cup FailureCompletions \cup ReplyTexts
        \cup {TransportError, <<>>}

Extracted == [t \in AllTexts |-> ExtractFunctionCalls(t)]

\* the positions of the calls that run a registered tool when executed
ToolCalls(calls) ==
    {i \in 1..Len(calls) :
        ExecuteFunction(calls[i], FALSE, <<>>, DefaultOutcome).called # <<>>}

\* the outcomes of the tool calls of a round: one for each execution of a
\* call that runs a tool, in the dispatch loop (1) and in the observation
\* message (2)
OutcomeChoices == [t \in AllTexts |->
                      [({1, 2} \X ToolCalls(Extracted[t])) -> ToolOutcomes]]

(***************************************************************************)
(* send_message                                                            *)
(***************************************************************************)
\* the corrective messages of the no-invocation branch
EscalatedMessage == <<"CRITICO: DEBES usar la funcion reply() AHORA.">>

FinalAnswerMessage == <<"Parece que tienes una respuesta lista.">>

ContinueMessage == <<"Continua con tu analisis">>

AbandonText == <<"Lo siento, se alcanzo el limite maximo de procesamiento.">>

\* the marker phrases that can be written with the tokens of the model
final_answer_indicators == {<<"segun">>}

\* variant of SliceFrom: the slice begins one element late
SliceFromOneLate(lst, idx) ==
    LET n     == Len(lst)
        start == IF idx < 0
                 THEN (IF n + idx < 0 THEN 0 ELSE n + idx)
                 ELSE (IF idx > n THEN n ELSE idx)
    IN  SubSeq(lst, start + 2, n)

\* lst[idx:] of Python for any integer idx
SliceFrom(lst, idx) ==
    LET n     == Len(lst)
        start == IF idx < 0
                 THEN (IF n + idx < 0 THEN 0 ELSE n + idx)
                 ELSE (IF idx > n THEN n ELSE idx)
    IN  SubSeq(lst, start + 1, n)

\* variant of MaintainHistoryLimit: the last messages only
MaintainHistoryLimitTailOnly(h, limit) ==
    IF Len(h) > limit * 2 + 1
    THEN SliceFrom(h, -(limit * 2 + 1))
    ELSE h

\* _maintain_history_limit
MaintainHistoryLimit(h, limit) ==
    IF Len(h) > limit * 2 + 1
    THEN LET messages_to_keep == limit * 2
         IN  SubSeq(h, 1, 1) \o SliceFrom(h, -messages_to_keep)
    ELSE h

\* what one execution of a call leaves in the record of the round
Execution(pass, call, r) ==
    [pass |-> pass, call |-> call, result |-> r.result, called |-> r.called]

RECURSIVE DispatchCallsNoBreak(_, _, _, _, _)
\* variant of DispatchCalls: the loop goes on after the reply
DispatchCallsNoBreak(calls, i, rc, fr, outs) ==
    IF i > Len(calls)
    THEN [reply_called |-> rc, final_response |-> fr, executed |-> <<>>,
          rets |-> <<>>, raised |-> FALSE]
    ELSE LET Cons(r, rest) ==
                 [rest EXCEPT !.executed = <<calls[i]>> \o @,
                              !.rets = <<Execution(1, calls[i], r)>> \o @]
             After(r) ==
                 IF r.raised
                 THEN [reply_called |-> r.reply_called,
                       final_response |-> r.final_response,
                       executed |-> <<calls[i]>>,
                       rets |-> <<Execution(1, calls[i], r)>>,
                       raised |-> TRUE]
                 ELSE Cons(r, DispatchCallsNoBreak(calls, i + 1,
                                  r.reply_called, r.final_response, outs))
         IN  After(ExecuteFunction(calls[i], rc, fr,
                                   IF <<1, i>> \in DOMAIN outs
                                   THEN outs[<<1, i>>] ELSE DefaultOutcome))

RECURSIVE DispatchCalls(_, _, _, _, _)
\* the dispatch loop of a round, from call i on: every call is executed
\* until the reply flag is set; an exception that leaves _execute_function
\* leaves the loop
DispatchCalls(calls, i, rc, fr, outs) ==
    IF i > Len(calls)
    THEN [reply_called |-> rc, final_response |-> fr, executed |-> <<>>,
          rets |-> <<>>, raised |-> FALSE]
    ELSE LET Cons(r, rest) ==
                 [rest EXCEPT !.executed = <<calls[i]>> \o @,
                              !.rets = <<Execution(1, calls[i], r)>> \o @]
             After(r) ==
                 IF r.raised \/ r.reply_called
                 THEN [reply_called |-> r.reply_called,
                       final_response |-> r.final_response,
                       executed |-> <<calls[i]>>,
                       rets |-> <<Execution(1, calls[i], r)>>,
                       raised |-> r.raised]
                 ELSE Cons(r, DispatchCalls(calls, i + 1, r.reply_called,
                                            r.final_response, outs))
         IN  After(ExecuteFunction(calls[i], rc, fr,
                                   IF <<1, i>> \in DOMAIN outs
                                   THEN outs[<<1, i>>] ELSE DefaultOutcome))

RECURSIVE ResultLines(_, _, _, _, _)
\* the lines of the observation message, from call i on: every call is
\* executed again
ResultLines(calls, i, rc, fr, outs) ==
    IF i > Len(calls)
    THEN [reply_called |-> rc, final_response |-> fr, lines |-> <<>>,
          rets |-> <<>>, raised |-> FALSE]
    ELSE LET Cons(r, rest) ==
                 [rest EXCEPT
                     !.lines = <<(<<"- ">> \o calls[i] \o <<": ">>
                                     \o r.result)>> \o @,
                     !.rets = <<Execution(2, calls[i], r)>> \o @]
             After(r) ==
                 IF r.raised
                 THEN [reply_called |-> r.reply_called,
                       final_response |-> r.final_response, lines |-> <<>>,
                       rets |-> <<Execution(2, calls[i], r)>>,
                       raised |-> TRUE]
                 ELSE Cons(r, ResultLines(calls, i + 1, r.reply_called,
                                          r.final_response, outs))
         IN  After(ExecuteFunction(calls[i], rc, fr,
                                   IF <<2, i>> \in DOMAIN outs
                                   THEN outs[<<2, i>>] ELSE DefaultOutcome))

\* the observation message of a round
ResultsMessage(lines) ==
    <<"Resultados de la ejecucion de funciones:", NL>> \o Join(<<NL>>, lines)

\* variant of LoopGuard: the bound is tested one round late
LoopGuardOneMore == ~reply_called /\ iteration <= max_iterations

\* the loop condition of send_message
LoopGuard == ~reply_called /\ iteration < max_iterations

\* variant of Abandoned: the bound is tested strictly
AbandonedStrict == iteration > max_iterations /\ ~reply_called

\* the test after the loop: the iteration bound was hit
Abandoned == iteration >= max_iterations /\ ~reply_called

\* variant of EscalationThreshold: one round later
EscalationThresholdLate == 2 + 1

\* the number of consecutive rounds without invocation that escalates
EscalationThreshold == 2

\* variant of WithFinalResponse: an abandoned turn is not recorded
WithFinalResponseUnlessAbandoned(h, fr) ==
    IF fr = AbandonText THEN h ELSE Append(h, Msg("assistant", fr))

\* the final exchange is added to the history
WithFinalResponse(h, fr) == Append(h, Msg("assistant", fr))

\* variant of ClearedHistory: the list is emptied
ClearedHistoryEmpty == <<>>

\* the history clear_history sets
ClearedHistory == <<SystemMessage>>

\* variant of ResetReplyState: the reply state is left as the turn before
\* left it
ResetReplyStateKept ==
    [reply_called |-> reply_called, final_response |-> final_response]

\* the reply state send_message sets when it begins
ResetReplyState == [reply_called |-> FALSE, final_response |-> <<>>]

\* send_message, up to the loop
SendMessage(m) ==
    /\ pc = "idle"
    /\ turns < MaxTurns
    /\ reply_called' = ResetReplyState.reply_called
    /\ final_response' = ResetReplyState.final_response
    /\ reply_owner' = 0
    /\ history' = Append(history, Msg("user", m))
    /\ current_messages' = history'
    /\ agent_response' = <<>>
    /\ iteration' = 0
    /\ consecutive_no_reply' = 0
    /\ message' = m
    /\ pc' = "loop"
    /\ requests' = 0
    /\ call_rounds' = 0
    /\ function_calls' = <<>>
    /\ executed' = <<>>
    /\ executions' = <<>>
    /\ http_response' = <<>>
    /\ failures' = {}
    /\ result' = None
    /\ outcome' = "RUNNING"
    /\ hist_before' = history
    /\ pre_trim' = None
    /\ turns' = turns + 1
    /\ last_op' = "send_message"
    /\ prev_op' = last_op
    /\ observed' = None
    /\ UNCHANGED <<config, exchanges>>

\* the failures of a round: the request failed ("transport"), a call was
\* not of the form name(arguments) ("syntax"), its name was not registered
\* ("unknown"), its evaluation or its tool raised ("tool")
FailuresOf(response, execs) ==
    (IF response.failed THEN {"transport"} ELSE {})
      \cup {"syntax" : i \in {k \in 1..Len(execs) :
                                ~MatchCall(Strip(execs[k].call)).ok}}
      \cup {"unknown" : i \in {k \in 1..Len(execs) :
                                 /\ MatchCall(Strip(execs[k].call)).ok
                                 /\ ~InRegistry(
                                        MatchCall(Strip(execs[k].call)).name)}}
      \cup {"tool" : i \in {k \in 1..Len(execs) :
                              /\ execs[k].called # <<>>
                              /\ execs[k].result[1] \in
                                    {"Error procesando funcion: ",
                                     "Error en argumentos de "}}}

\* one round of the loop whose completion has invocations
RoundCalls(outs) ==
    LET \* d is what the dispatch loop gives, o what the observation gives
        Assign(calls, d, o) ==
            /\ calls # <<>>
            /\ call_rounds' = call_rounds + 1
            /\ function_calls' = calls
            /\ executed' = d.executed
            /\ executions' = d.rets \o o.rets
            /\ consecutive_no_reply' = 0
            /\ reply_called' = o.reply_called
            /\ final_response' = o.final_response
            /\ reply_owner' = IF o.reply_called THEN running
                              ELSE reply_owner
            /\ IF d.raised \/ o.raised
               THEN \* the exception leaves send_message
                    /\ current_messages' = current_messages
                    /\ pc' = "idle"
                    /\ outcome' = "RAISED"
               ELSE /\ current_messages' =
                           IF d.reply_called THEN current_messages
                           ELSE current_messages
                                   \o <<Msg("assistant", agent_response'),
                                        Msg("user",
                                            ResultsMessage(o.lines))>>
                    /\ UNCHANGED <<pc, outcome>>
        Observe(calls, d) ==
            Assign(calls, d,
                   IF d.reply_called \/ d.raised
                   THEN [reply_called |-> d.reply_called,
                         final_response |-> d.final_response,
                         lines |-> <<>>, rets |-> <<>>, raised |-> FALSE]
                   ELSE ResultLines(calls, 1, d.reply_called,
                                    d.final_response, outs))
        Dispatch(calls) ==
            Observe(calls, DispatchCalls(calls, 1, reply_called,
                                         final_response, outs))
    IN  Dispatch(Extracted[agent_response'])

\* one round of the loop whose completion has no invocation
RoundNoCalls ==
    /\ Extracted[agent_response'] = <<>>
    /\ call_rounds' = call_rounds
    /\ function_calls' = <<>>
    /\ executed' = <<>>
    /\ executions' = <<>>
    /\ UNCHANGED <<reply_called, final_response, reply_owner, pc, outcome>>
    /\ IF consecutive_no_reply + 1 >= EscalationThreshold
       THEN /\ current_messages' =
                   current_messages
                       \o <<Msg("assistant", agent_response'),
                            Msg("user", EscalatedMessage)>>
            /\ consecutive_no_reply' = 0
       ELSE /\ consecutive_no_reply' = consecutive_no_reply + 1
            /\ IF \E phrase \in final_answer_indicators :
                      Contains(Lower(agent_response'), phrase)
               THEN current_messages' =
                        current_messages
                            \o <<Msg("assistant", agent_response'),
                                 Msg("user", FinalAnswerMessage)>>
               ELSE current_messages' =
                        current_messages
                            \o <<Msg("assistant", agent_response'),
                                 Msg("user", ContinueMessage)>>

\* one iteration of the loop of send_message: one completion request, to
\* which the endpoint gives response, and the outcomes outs of the tool calls
Round(response, outs) ==
    /\ pc = "loop"
    /\ LoopGuard
    /\ iteration' = iteration + 1
    /\ requests' = requests + 1
    /\ http_response' = <<response>>
    /\ agent_response' = GetAgentResponse(response)
    /\ \/ RoundCalls(outs)
       \/ RoundNoCalls
    /\ failures' = failures \cup FailuresOf(response, executions')
    /\ UNCHANGED <<config, history, message, result, hist_before,
                   pre_trim, exchanges, turns, last_op, prev_op, observed>>

\* send_message, after the loop
Finish ==
    /\ pc = "loop"
    /\ ~LoopGuard
    /\ LET abandoned == Abandoned
           fr        == IF abandoned THEN AbandonText ELSE final_response
           h         == WithFinalResponse(history, fr)
       IN  /\ final_response' = fr
           /\ pre_trim' = h
           /\ history' = MaintainHistoryLimit(h, history_limit)
           /\ result' = fr
           /\ outcome' = IF reply_called THEN "DONE"
                         ELSE IF abandoned THEN "ABANDONED" ELSE "NONE"
           /\ exchanges' = Append(exchanges, <<Msg("user", message),
                                               Msg("assistant", fr)>>)
    /\ pc' = "idle"
    /\ current_messages' = <<>>
    /\ agent_response' = <<>>
    /\ iteration' = 0
    /\ consecutive_no_reply' = 0
    /\ function_calls' = <<>>
    /\ executed' = <<>>
    /\ executions' = <<>>
    /\ http_response' = <<>>
    /\ UNCHANGED <<config, reply_called, reply_owner, message, requests,
                   call_rounds, failures, hist_before, turns, last_op, prev_op, observed>>

(***************************************************************************)
(* get_history, clear_history                                              *)
(***************************************************************************)
\* the record of the last turn is kept until the next operation
TurnForgotten ==
    /\ message' = <<>>
    /\ failures' = {}
    /\ requests' = 0
    /\ call_rounds' = 0
    /\ result' = None
    /\ outcome' = "RUNNING"
    /\ hist_before' = None
    /\ pre_trim' = None

GetHistory ==
    /\ pc = "idle"
    /\ observed' = history
    /\ last_op' = "get_history"
    /\ prev_op' = last_op
    /\ TurnForgotten
    /\ UNCHANGED <<config, history, reply_called, final_response,
                   reply_owner, pc,
                   current_messages, agent_response, iteration,
                   consecutive_no_reply, function_calls, executed, executions,
                   http_response, exchanges, turns>>

ClearHistory ==
    /\ pc = "idle"
    /\ history' = ClearedHistory
    /\ exchanges' = <<>>
    /\ last_op' = "clear_history"
    /\ prev_op' = last_op
    /\ observed' = None
    /\ TurnForgotten
    /\ UNCHANGED <<config, reply_called, final_response, reply_owner, pc,
                   current_messages, agent_response, iteration,
                   consecutive_no_reply, function_calls, executed, executions,
                   http_response, turns>>

(***************************************************************************)
(* Specification of the agent                                              *)
(***************************************************************************)
\* the local variables of a thread that is in no call of send_message
IdleLocals ==
    [pc |-> "idle", message |-> <<>>, current_messages |-> <<>>,
     agent_response |-> <<>>, iteration |-> 0, consecutive_no_reply |-> 0,
     requests |-> 0, call_rounds |-> 0, function_calls |-> <<>>,
     executed |-> <<>>, executions |-> <<>>, http_response |-> <<>>,
     failures |-> {}, result |-> None, outcome |-> "RUNNING",
     hist_before |-> None, pre_trim |-> None]

\* the state after construction, for the given arguments and endpoint
ConstructedWith(tl, limit, maxit, texts) ==
    /\ caller_tools = tl
    /\ history_limit = limit
    /\ max_iterations = maxit
    /\ model_texts = texts
    /\ history = <<Msg("system",
                       SystemPromptOf(GenerateToolsDocumentation(
                           AddReplyFunction(tl))))>>
    /\ reply_called = FALSE
    /\ final_response = <<>>
    /\ pc = "idle"
    /\ message = <<>>
    /\ current_messages = <<>>
    /\ agent_response = <<>>
    /\ iteration = 0
    /\ consecutive_no_reply = 0
    /\ requests = 0
    /\ call_rounds = 0
    /\ function_calls = <<>>
    /\ executed = <<>>
    /\ executions = <<>>
    /\ http_response = <<>>
    /\ failures = {}
    /\ result = None
    /\ outcome = "RUNNING"
    /\ hist_before = None
    /\ pre_trim = None
    /\ exchanges = <<>>
    /\ turns = 0
    /\ last_op = "init"
    /\ prev_op = "init"
    /\ observed = None
    /\ direct = <<>>
    /\ running = 1
    /\ parked = IdleLocals
    /\ reply_owner = 0
    /\ caller_list = CallerListAfter(tl)
    /\ agents = <<>>
    /\ chat_history = <<>>
    /\ basic_tools = <<>>
    /\ chat_call = <<>>

\* the agent of the agent specification
Constructed(limit, maxit, texts) ==
    ConstructedWith(CallerTools, limit, maxit, texts)

Init ==
    \E limit \in 0..MaxK, maxit \in 0..MaxIter :
        Constructed(limit, maxit, Completions)

RoundStep ==
    \E response \in Responses(model_texts) :
        \E outs \in OutcomeChoices[GetAgentResponse(response)] :
            Round(response, outs)

Next ==
    \/ \E m \in UserMessages : SendMessage(m)
    \/ RoundStep
    \/ Finish
    \/ GetHistory
    \/ ClearHistory

Spec == Init /\ [][Next]_vars

(***************************************************************************)
(* Specification of the reply texts: the endpoint answers reply('X') or    *)
(* reply("X"), for one text X                                              *)
(***************************************************************************)
InitReply ==
    \E t \in ReplyTexts : Constructed(MaxK, 1, {t})

SpecReply == InitReply /\ [][Next]_vars

(***************************************************************************)
(* Specification of the failures: the endpoint answers calls that cannot   *)
(* be dispatched, calls of a tool that may raise, the reply, or fails      *)
(***************************************************************************)
InitFailures ==
    \E maxit \in 0..MaxIter : Constructed(MaxK, maxit, FailureCompletions)

SpecFailures == InitFailures /\ [][Next]_vars

(***************************************************************************)
(* Specification of the tools: an agent is constructed with a list of      *)
(* caller tools and _execute_function is called on it                      *)
(***************************************************************************)
\* longest list of caller tools
MaxTools == 2
\* largest number of arguments of an invocation
MaxArgs == 3

\* the callables of the caller: sumar stands for any tool, dividir is the
\* function of src/tools.py, reply is a callable that has the name of the
\* built-in one
CallerCallables ==
    {Tool("sumar", "caller"), Tool("dividir", "caller"),
     Tool("reply", "caller")}

RECURSIVE ListsUpTo(_, _)
\* the sequences of at most n members of S
ListsUpTo(S, n) ==
    IF n = 0 THEN {<<>>}
    ELSE LET shorter == ListsUpTo(S, n - 1)
         IN  shorter \cup {Append(l, x) : l \in shorter, x \in S}

CallerLists == ListsUpTo(CallerCallables, MaxTools)

\* the argument texts: numbers and the undefined name a, separated by
\* a comma and a blank
ArgumentTexts ==
    {Join(<<",", SP>>, [i \in 1..Len(l) |-> <<l[i]>>]) :
        l \in ListsUpTo(NumberTokens \cup {"a"}, MaxArgs)}

\* the invocations handed to _execute_function: every name with every
\* argument text, and a text that is no invocation
Invocations ==
    {<<n, LP>> \o args \o <<RP>> :
        n \in {"sumar", "dividir", "reply", "restar"}, args \in ArgumentTexts}
      \cup {<<"sumar", SP, "1">>}

\* self.tools of the constructed agent
SelfTools == AddReplyFunction(caller_tools)

\* what evaluating and running the call can do on the constructed agent
OutcomesOf(call) ==
    LET r == ExecuteIn(SelfTools, call, FALSE, <<>>, DefaultOutcome)
    IN  IF r.called = <<>> THEN {DefaultOutcome}
        ELSE IF r.called[1] = Tool("dividir", "caller")
        THEN {EvalDividir(MatchCall(Strip(call)).args)}
        ELSE ToolOutcomes

\* self._execute_function(call), called on the agent as constructed
Execute(call, out) ==
    LET r == ExecuteIn(SelfTools, call, reply_called, final_response, out)
    IN  /\ pc = "idle"
        /\ direct' = <<[call |-> call, outcome |-> out, ret |-> r]>>
        /\ reply_called' = r.reply_called
        /\ final_response' = r.final_response
        /\ UNCHANGED <<history_limit, max_iterations, model_texts,
                       caller_tools, running, parked, reply_owner, others,
                       history, pc, message, current_messages,
                       agent_response, iteration, consecutive_no_reply,
                       requests, call_rounds, function_calls, executed,
                       executions, http_response, failures, result,
                       outcome, hist_before, pre_trim, exchanges,
                       turns, last_op, prev_op, observed>>

InitTools ==
    \E tl \in CallerLists : ConstructedWith(tl, MaxK, 1, {})

\* one call of _execute_function on the agent as constructed
ExecuteStep ==
    /\ direct = <<>>
    /\ \E call \in Invocations :
          \E out \in OutcomesOf(call) : Execute(call, out)

NextTools == ExecuteStep

SpecTools == InitTools /\ [][NextTools]_vars

(***************************************************************************)
(* Specification of two threads that call send_message on one agent: the   *)
(* interpreter switches between them, here between two steps of            *)
(* send_message                                                            *)
(***************************************************************************)
\* the local variables of the running thread and the record of its call
Locals ==
    [pc |-> pc, message |-> message, current_messages |-> current_messages,
     agent_response |-> agent_response, iteration |-> iteration,
     consecutive_no_reply |-> consecutive_no_reply, requests |-> requests,
     call_rounds |-> call_rounds, function_calls |-> function_calls,
     executed |-> executed, executions |-> executions,
     http_response |-> http_response, failures |-> failures,
     result |-> result, outcome |-> outcome, hist_before |-> hist_before,
     pre_trim |-> pre_trim]

\* the interpreter gives the processor to the other thread: the attributes
\* of the agent are shared, the local variables are not
Switch ==
    /\ running' = 3 - running
    /\ parked' = Locals
    /\ pc' = parked.pc
    /\ message' = parked.message
    /\ current_messages' = parked.current_messages
    /\ agent_response' = parked.agent_response
    /\ iteration' = parked.iteration
    /\ consecutive_no_reply' = parked.consecutive_no_reply
    /\ requests' = parked.requests
    /\ call_rounds' = parked.call_rounds
    /\ function_calls' = parked.function_calls
    /\ executed' = parked.executed
    /\ executions' = parked.executions
    /\ http_response' = parked.http_response
    /\ failures' = parked.failures
    /\ result' = parked.result
    /\ outcome' = parked.outcome
    /\ hist_before' = parked.hist_before
    /\ pre_trim' = parked.pre_trim
    /\ UNCHANGED <<history_limit, max_iterations, model_texts, caller_tools,
                   direct, others, history, reply_called, final_response,
                   reply_owner, exchanges, turns, last_op, prev_op, observed>>

\* the completions of the endpoint in the specification of the threads
ThreadCompletions == {TextProse, ReplyText(SQ, <<"a">>)}

InitThreads == Constructed(MaxK, 2, ThreadCompletions)

NextThreads ==
    \/ \E m \in UserMessages : SendMessage(m)
    \/ RoundStep
    \/ Finish
    \/ Switch

SpecThreads == InitThreads /\ [][NextThreads]_vars

(***************************************************************************)
(* Specification of the extraction: _extract_function_calls is called on   *)
(* a text                                                                  *)
(***************************************************************************)
\* longest text handed to _extract_function_calls, fences not counted
MaxTextLen == 5

\* the tokens of the texts: a registered name, a name that is not
\* registered, the parentheses, the line break and the blank
ExtractTokens == {"sumar", "restar", LP, RP, NL, SP}

\* a text inside a fenced python block
Fenced(t) == <<BT, PY, NL>> \o t \o <<NL, BT>>

\* the texts handed to _extract_function_calls
ExtractTexts ==
    ListsUpTo(ExtractTokens, MaxTextLen)
      \cup {Fenced(t) : t \in ListsUpTo(ExtractTokens, MaxTextLen - 2)}

\* function_calls = self._extract_function_calls(agent_response)
ExtractCalls(text) ==
    /\ pc = "idle"
    /\ agent_response' = text
    /\ function_calls' = ExtractFunctionCalls(text)
    /\ UNCHANGED <<config, history, reply_called, final_response, pc,
                   message, current_messages, iteration,
                   consecutive_no_reply, requests, call_rounds, executed,
                   executions, http_response, failures, result, outcome,
                   hist_before, pre_trim, exchanges, turns, last_op,
                   prev_op, observed, reply_owner>>

InitExtract == ConstructedWith(CallerTools, MaxK, 1, {})

\* one call of _extract_function_calls on the agent as constructed
ExtractStep ==
    /\ agent_response = <<>>
    /\ \E text \in ExtractTexts : ExtractCalls(text)

NextExtract == ExtractStep

SpecExtract == InitExtract /\ [][NextExtract]_vars

(***************************************************************************)
(* Specification of the shared list: after the agent, further agents are   *)
(* constructed with the list object of the caller, or without tools        *)
(***************************************************************************)
\* largest number of further agents
MaxAgents == 2

\* what the caller passes as tools: its list object, or None
ToolsArguments == {"list", "None"}

\* AIAgent(tools=arg, max_iterations=maxit): the constructor as a whole.
\* The field tools holds self.tools as the constructor leaves it.
ConstructAgent(arg, maxit) ==
    LET Built(shared, self_tools) ==
            /\ caller_list' = IF shared THEN self_tools ELSE caller_list
            /\ agents' = Append(agents,
                   [arg |-> arg, max_iterations |-> maxit,
                    shared |-> shared, tools |-> self_tools,
                    tools_registry |-> RegistryKeysOf(self_tools),
                    tools_documentation |->
                        GenerateToolsDocumentation(self_tools)])
        From(shared) ==
            Built(shared,
                  AddReplyFunction(IF shared THEN caller_list ELSE <<>>))
    IN  /\ pc = "idle"
        /\ Len(agents) < MaxAgents
        /\ From(arg = "list" /\ SharesList(caller_list))
        /\ UNCHANGED <<history_limit, max_iterations, model_texts,
                       caller_tools, direct, running, parked, chat_history,
                       basic_tools, chat_call, agent_state>>

InitShare ==
    \E tl \in CallerLists : ConstructedWith(tl, MaxK, 1, {})

\* one further construction
ConstructStep ==
    \E arg \in ToolsArguments, maxit \in 1..MaxIter :
        ConstructAgent(arg, maxit)

NextShare == ConstructStep

SpecShare == InitShare /\ [][NextShare]_vars

(***************************************************************************)
(* The agent of the first design: BasicAgent of src/basic_agent.py         *)
(***************************************************************************)
\* the prefix of a call in a completion, in lower and in upper case
FN == "funcion:"
FNU == "FUNCION:"

\* default of the constructor argument n_interactions
n_interactions == 4

\* most calls of chat
MaxChats == 3

\* the names the caller registers
BasicToolNames == {"sumar", "dividir"}

\* \s* at the head of a text
SkipSpaces(s) ==
    LET idx == {i \in 1..Len(s) : ~IsSpace(s[i])}
    IN  IF idx = {} THEN <<>> ELSE SubSeq(s, MinOf(idx), Len(s))

\* name in self.tools
IsRegistered(names, name) ==
    Len(name) = 1 /\ \E i \in 1..Len(names) : names[i] = name[1]

\* _generate_system_prompt
GenerateSystemPrompt(names) ==
    <<"Eres un agente con acceso a las siguientes funciones:", NL>>
        \o Join(<<NL>>, [i \in 1..Len(names) |->
               <<"- ", names[i], "(args): doc">>])
        \o <<NL, NL, "Si puedes responder usando una funcion">>

\* the text returned when the evaluation of the arguments or the tool raises
BasicToolError(tool_name, e) ==
    <<"[Error al ejecutar funcion '">> \o tool_name \o <<"']: ">> \o e

\* variant of ParseFunctionCall: a call of a name that is not registered
\* gives the error text
ParseFunctionCallUnknownIsError(text, names, effect) ==
    LET Found(m) ==
            IF ~m.ok THEN <<>>
            ELSE IF ~IsRegistered(names, m.name)
            THEN <<BasicToolError(m.name, <<"exc">>)>>
            ELSE IF effect.raised
            THEN <<BasicToolError(m.name, effect.text)>>
            ELSE <<effect.text>>
        Prefixed(s) ==
            IF s # <<>> /\ s[1] \in {FN, FNU}
            THEN Found(MatchCall(SkipSpaces(Tail(s))))
            ELSE <<>>
    IN  Prefixed(Strip(text))

\* _parse_function_call(text): <<>> for None, or the text returned; effect
\* is what evaluating the arguments and running the tool does
ParseFunctionCall(text, names, effect) ==
    LET Found(m) ==
            IF ~m.ok THEN <<>>
            ELSE IF ~IsRegistered(names, m.name)
            THEN <<>>
            ELSE IF effect.raised
            THEN <<BasicToolError(m.name, effect.text)>>
            ELSE <<effect.text>>
        Prefixed(s) ==
            IF s # <<>> /\ s[1] \in {FN, FNU}
            THEN Found(MatchCall(SkipSpaces(Tail(s))))
            ELSE <<>>
    IN  Prefixed(Strip(text))

\* the completions of the endpoint: prose, calls of a registered and of an
\* unknown name with the prefix, a call without the prefix, a call after
\* prose
BasicCompletions ==
    {TextProse,
     <<FN, SP, "sumar", LP, "1", RP>>,
     <<SP, FNU, "sumar", LP, RP, NL>>,
     <<FN, SP, "restar", LP, "1", RP>>,
     <<"sumar", LP, "1", RP>>,
     <<"a", SP, FN, SP, "sumar", LP, "1", RP>>}

\* what the endpoint can do with the request of chat: answer a completion,
\* answer without content, or fail
BasicResponses ==
    Responses(BasicCompletions) \cup {[failed |-> FALSE, text |-> None]}

\* data.get("message", {}).get("content", ...)
AiReply(response) ==
    IF response.text = None THEN <<"[Respuesta vacia]">> ELSE response.text

\* the text chat returns when the request fails
ConnectionErrorText == <<"[Error de conexion]: ", "exc">>

\* register_tool(name, func)
RegisterTool(name) ==
    /\ ~IsRegistered(basic_tools, <<name>>)
    /\ basic_tools' = Append(basic_tools, name)
    /\ UNCHANGED <<history_limit, max_iterations, model_texts, caller_tools,
                   direct, running, parked, caller_list, agents,
                   chat_history, chat_call, agent_state>>

\* chat(user_input): the request gets response, and effect is what the
\* tool does if one is called
Chat(user_input, response, effect) ==
    LET Call(messages, returned, function_result) ==
            [user_input |-> user_input, messages |-> messages,
             response |-> response, requests |-> 1,
             function_result |-> function_result, returned |-> returned]
        Parsed(h, messages, ai_reply, function_result) ==
            IF function_result # <<>>
            THEN /\ chat_history' =
                        Append(h, Msg("assistant", function_result[1]))
                 /\ chat_call' = <<Call(messages, function_result[1],
                                        function_result)>>
            ELSE /\ chat_history' = Append(h, Msg("assistant", ai_reply))
                 /\ chat_call' = <<Call(messages, ai_reply,
                                        function_result)>>
        Requested(h, messages) ==
            IF response.failed
            THEN /\ chat_history' = h
                 /\ chat_call' = <<Call(messages, ConnectionErrorText,
                                        <<>>)>>
            ELSE Parsed(h, messages, AiReply(response),
                        ParseFunctionCall(AiReply(response), basic_tools,
                                          effect))
        Begun(h) ==
            Requested(h, <<Msg("system", GenerateSystemPrompt(basic_tools))>>
                             \o SliceFrom(h, -(n_interactions * 2)))
    IN  /\ Begun(Append(chat_history, Msg("user", user_input)))
        /\ UNCHANGED <<history_limit, max_iterations, model_texts,
                       caller_tools, direct, running, parked, caller_list,
                       agents, basic_tools, agent_state>>

\* the calls of chat made so far
ChatCalls ==
    Cardinality({i \in 1..Len(chat_history) : chat_history[i].role = "user"})

InitBasic == ConstructedWith(CallerTools, MaxK, 1, {})

ChatStep ==
    /\ ChatCalls < MaxChats
    /\ \E user_input \in UserMessages, response \in BasicResponses,
          effect \in ToolOutcomes :
          Chat(user_input, response, effect)

NextBasic ==
    \/ \E name \in BasicToolNames : RegisterTool(name)
    \/ ChatStep

SpecBasic == InitBasic /\ [][NextBasic]_vars

(***************************************************************************)
(* Properties                                                              *)
(***************************************************************************)
\* a send_message call has returned and nothing was called since
Returned == pc = "idle" /\ last_op = "send_message"

Last(s) == s[Len(s)]

\* the call is a terminal invocation that _execute_function accepts
IsReplyCall(call) ==
    MatchCall(Strip(call)).ok /\ MatchCall(Strip(call)).name = <<"reply">>

\* C1: a call of send_message terminates, with the reply fired (DONE) or
\* the iteration bound hit (ABANDONED), after at most max_iterations
\* completion requests.  Termination is stated by a variant: every step of
\* a running call either returns or is a round that issues one request and
\* moves the round counter one closer to max_iterations, which it never
\* passes.
C1_TurnTerminates ==
    /\ [](requests <= max_iterations)
    /\ [](pc = "loop" =>
            /\ requests = iteration
            /\ iteration <= max_iterations)
    /\ [](Returned => outcome \in {"DONE", "ABANDONED"})
    /\ [][pc = "loop" =>
            \/ /\ pc' = "idle"
               /\ requests' = requests
            \/ /\ pc' = "loop"
               /\ iteration' = iteration + 1
               /\ requests' = requests + 1]_vars

\* a turn of several rounds that the reply ended
C1_Witness ==
    Returned /\ outcome = "DONE" /\ requests >= 2 /\ requests <= max_iterations

\* C2: when the reply never fires in a turn, send_message issues exactly
\* max_iterations completion requests and returns the abandonment text.
C2_AbandonedAfterExactlyMax ==
    (Returned /\ ~reply_called) =>
        /\ requests = max_iterations
        /\ result = AbandonText
        /\ outcome = "ABANDONED"

\* an abandoned turn that mixed rounds with and without invocations
C2_Witness ==
    /\ Returned /\ ~reply_called /\ result = AbandonText
    /\ requests >= 2 /\ call_rounds >= 1 /\ call_rounds < requests

\* C3: when the completion is reply('X') or reply("X"), send_message
\* returns exactly X, for any text X.
C3_ReplyReturnsArgument ==
    [][\A q \in {SQ, DQ}, X \in ArgTexts :
          /\ (requests' = requests + 1
                 /\ agent_response' = ReplyText(q, X)) =>
                /\ reply_called'
                /\ final_response' = X
          /\ (pc = "loop" /\ pc' = "idle"
                 /\ agent_response = ReplyText(q, X)) =>
                result' = X
      ]_vars

\* C4: when the reply fires in the dispatch of a round, no invocation after
\* it is executed, the working window is left as it was, no further
\* completion is requested and the turn returns the argument of the reply.
C4_ReplyShortCircuits ==
    [][/\ (pc = "loop" /\ ~reply_called /\ reply_called') =>
            /\ \E k \in 1..Len(function_calls') :
                  /\ executed' = SubSeq(function_calls', 1, k)
                  /\ IsReplyCall(function_calls'[k])
                  /\ \A j \in 1..(k - 1) : ~IsReplyCall(function_calls'[j])
                  /\ final_response' =
                        StripQuotes(MatchCall(Strip(function_calls'[k])).args)
            /\ current_messages' = current_messages
       /\ (pc = "loop" /\ reply_called) =>
            /\ requests' = requests
            /\ pc' = "idle"
            /\ result' = final_response
            /\ outcome' = "DONE"
      ]_vars

\* the reply fired before the last invocation of the round
C4_Witness ==
    pc = "loop" /\ reply_called /\ Len(executed) < Len(function_calls)

\* the last round appended the pair of a no-invocation round that did not
\* escalate
AfterPlainNoCallRound ==
    /\ Len(current_messages) > Len(history)
    /\ Last(current_messages).content \in {FinalAnswerMessage, ContinueMessage}

\* C5: the counter of consecutive no-invocation rounds is zero after a round
\* with an invocation; the second consecutive no-invocation round appends
\* the completion and the escalated message, resets the counter, and the
\* loop goes on.
C5_EscalationAfterTwo ==
    [][(pc = "loop" /\ requests' = requests + 1) =>
          /\ function_calls' # <<>> => consecutive_no_reply' = 0
          /\ (function_calls' = <<>> /\ AfterPlainNoCallRound) =>
                /\ current_messages' = current_messages \o
                      <<Msg("assistant", agent_response'),
                        Msg("user", EscalatedMessage)>>
                /\ consecutive_no_reply = 1
                /\ consecutive_no_reply' = 0
                /\ pc' = "loop"
                /\ (iteration' < max_iterations => LoopGuard')
          /\ (function_calls' = <<>> /\ ~AfterPlainNoCallRound) =>
                /\ consecutive_no_reply = 0
                /\ consecutive_no_reply' = 1
                /\ Last(current_messages').content # EscalatedMessage
      ]_vars

\* the escalated message was appended and rounds remain
C5_Witness ==
    /\ pc = "loop" /\ Len(current_messages) > Len(history)
    /\ Last(current_messages).content = EscalatedMessage
    /\ consecutive_no_reply = 0
    /\ iteration < max_iterations

\* C6: between turns the history never has more than 2 * history_limit + 1
\* messages.
C6_HistoryLengthBounded ==
    pc = "idle" => Len(history) <= 2 * history_limit + 1

\* C7: the first element of the history is always the system message.
C7_SystemMessageFirst ==
    Len(history) >= 1 /\ history[1] = SystemMessage

\* the trim of a turn removed messages
C7_Witness ==
    /\ Returned /\ history_limit >= 1
    /\ Len(history) < Len(pre_trim)
    /\ history[1] = SystemMessage

\* the last n exchanges, as messages
RecentExchanges(n) ==
    Flatten(SubSeq(exchanges, Len(exchanges) - n + 1, Len(exchanges)))

\* C8: after the trim of a turn the history is the system message followed
\* by the most recent min(history_limit, n) exchanges.
C8_TrimKeepsRecentExchanges ==
    Returned =>
        history = <<SystemMessage>> \o
            RecentExchanges(IF history_limit < Len(exchanges)
                            THEN history_limit ELSE Len(exchanges))

\* C9: get_history right after clear_history returns the system message
\* alone, and a second clear_history changes nothing.
C9_ClearHistory ==
    [][/\ (last_op' = "get_history" /\ last_op = "clear_history") =>
             observed' = <<SystemMessage>>
       /\ (last_op' = "clear_history" /\ last_op = "clear_history") =>
             /\ history' = history
             /\ history' = <<SystemMessage>>
      ]_vars

\* get_history right after a clear_history that followed turns
C9_Witness ==
    /\ last_op = "get_history" /\ prev_op = "clear_history"
    /\ turns >= 2
    /\ observed = <<SystemMessage>>

\* C10: a turn adds to the history, before the trim, the user message and
\* one assistant message with the returned text; during the turn the history
\* only has the user message more.
C10_OneExchangePersisted ==
    /\ pc = "loop" => history = Append(hist_before, Msg("user", message))
    /\ Returned =>
          pre_trim = hist_before \o
              <<Msg("user", message), Msg("assistant", result)>>

\* a turn of several rounds has returned
C10_Witness ==
    /\ Returned /\ requests >= 2 /\ call_rounds >= 1
    /\ pre_trim = hist_before \o
          <<Msg("user", message), Msg("assistant", result)>>

\* self.tools_documentation of the constructed agent
Documentation == GenerateToolsDocumentation(SelfTools)

\* the tool names of the entries of a tools documentation, in order
DocumentedNames(doc) ==
    LET idx == Ascending({i \in 1..(Len(doc) - 1) : doc[i] = "* "})
    IN  [k \in 1..Len(idx) |-> doc[idx[k] + 1]]

\* C11: for every list of caller tools, the tools documentation of the
\* constructed agent (the one its system message carries) lists each
\* registered tool name exactly once, in registration order.
C11_EachNameListedOnce ==
    /\ history[1].content = SystemPromptOf(Documentation)
    /\ DocumentedNames(Documentation) = RegistryKeysOf(SelfTools)

\* C12: the tools documentation is empty if and only if no tool other than
\* reply is registered; an agent constructed without caller tools has an
\* empty documentation and the base prompt as system prompt.
C12_EmptyDocumentationIffNoCallerTool ==
    /\ (Documentation = <<>>) <=>
          (\A i \in 1..Len(SelfTools) : SelfTools[i].name = "reply")
    /\ caller_tools = <<>> =>
          /\ Documentation = <<>>
          /\ history[1].content = base_system_prompt

\* the execution is of a well-formed call of a name that is not registered
IsUnknownCall(call) ==
    MatchCall(Strip(call)).ok /\ ~InRegistry(MatchCall(Strip(call)).name)

\* the line of the observation message for an execution
ObservationLine(e) == <<"- ">> \o e.call \o <<": ">> \o e.result

\* C13: an invocation of a name that is not in the registry runs no tool
\* and gives an error text that names it and lists the registered names;
\* in a round of send_message in which the reply does not fire the turn is
\* not ended by it: the error text is in the observation message appended
\* to the window and the loop goes on as long as rounds remain.
C13_UnknownToolRecovered ==
    [][(pc = "loop" /\ requests' = requests + 1) =>
          \A i \in 1..Len(executions') :
              IsUnknownCall(executions'[i].call) =>
                  /\ executions'[i].called = <<>>
                  /\ Contains(executions'[i].result,
                              MatchCall(Strip(executions'[i].call)).name)
                  /\ Contains(executions'[i].result, ListRepr(RegistryKeys))
                  /\ outcome' = "RUNNING"
                  /\ ~reply_called' =>
                        /\ pc' = "loop"
                        /\ Last(current_messages').role = "user"
                        /\ Contains(Last(current_messages').content,
                                    ObservationLine(executions'[i]))
                        /\ (iteration' < max_iterations => LoopGuard')
      ]_vars

\* a round followed the round whose observation message holds the error
\* text for the unknown name
C13_Witness ==
    /\ pc = "loop" /\ requests >= 2
    /\ \E k \in 1..(Len(current_messages) - 2) :
          /\ current_messages[k].role = "user"
          /\ Contains(current_messages[k].content,
                      <<"- ", "restar", LP, "1", RP, ": ", "Error: Funcion '",
                        "restar">>)

\* C14: when _execute_function runs a tool other than reply, with an empty
\* or a non-empty argument text, no exception leaves the method; a failure
\* of the evaluation or of the tool gives an error text that holds the
\* name of the tool and the message of the failure; a success gives the
\* text of the value, 5.0 for dividir(10, 2).
C14_ToolFailureIsErrorText ==
    \A i \in 1..Len(direct) :
        LET d == direct[i]
        IN  d.ret.called # <<>> =>
              /\ ~d.ret.raised
              /\ d.outcome.raised =>
                    /\ Contains(d.ret.result, <<d.ret.called[1].name>>)
                    /\ Contains(d.ret.result, d.outcome.text)
              /\ ~d.outcome.raised => d.ret.result = d.outcome.text
              /\ (d.ret.called[1].name = "dividir"
                    /\ d.call = <<"dividir", LP, "10", ",", SP, "2", RP>>) =>
                    d.ret.result = <<"5", ".", "0">>

\* the call is a well-formed invocation of reply
IsReplyInvocation(call) ==
    MatchCall(Strip(call)).ok /\ MatchCall(Strip(call)).name = <<"reply">>

\* C18: for every list of caller tools the registry of the constructed
\* agent resolves the name reply to the built-in reply, and an invocation
\* of reply runs no callable: it sets the flag and records its argument as
\* the final response.  No callable of the caller named reply is ever run.
C18_ReplyIsBuiltin ==
    /\ ToolsRegistry(SelfTools)["reply"] = BuiltinReply
    /\ \A i \in 1..Len(direct) :
          /\ direct[i].ret.called # <<Tool("reply", "caller")>>
          /\ IsReplyInvocation(direct[i].call) =>
                /\ direct[i].ret.called = <<>>
                /\ direct[i].ret.result = ReplyConfirmation
                /\ reply_called
                /\ final_response =
                      StripQuotes(MatchCall(Strip(direct[i].call)).args)

\* reply was invoked on an agent whose caller handed over a callable named
\* reply
C18_Witness ==
    /\ \E k \in 1..Len(caller_tools) : caller_tools[k] = Tool("reply", "caller")
    /\ \E i \in 1..Len(direct) :
          /\ IsReplyInvocation(direct[i].call)
          /\ reply_called
          /\ final_response # <<>>

\* C15: when the completion request of a round fails, no exception leaves
\* the round: the error text is the completion of the round and is handled
\* as any completion without invocation (it is appended to the window as
\* the assistant message, followed by a corrective message, and the round
\* counts); the request is not issued again, the failed request is the one
\* request of the round.
C15_TransportFailureIsCompletion ==
    [][(pc = "loop" /\ requests' = requests + 1 /\ http_response'[1].failed) =>
          /\ agent_response' = TransportError
          /\ iteration' = iteration + 1
          /\ pc' = "loop"
          /\ outcome' = "RUNNING"
          /\ function_calls' = Extracted[TransportError]
          /\ \E corrective \in {ContinueMessage, EscalatedMessage} :
                current_messages' = current_messages \o
                    <<Msg("assistant", TransportError),
                      Msg("user", corrective)>>
      ]_vars

\* the request of a round failed and a later round of the same turn got a
\* completion
C15_Witness ==
    /\ pc = "loop" /\ requests >= 2
    /\ http_response # <<>> /\ ~http_response[1].failed
    /\ \E k \in 1..Len(current_messages) :
          current_messages[k] = Msg("assistant", TransportError)

C17_RunStateOwnedByTurn ==
    [][(pc = "loop" /\ pc' = "idle" /\ running' = running) =>
          /\ reply_called => reply_owner = running
          /\ outcome' = "DONE" => reply_owner = running
          /\ iteration < max_iterations => reply_owner = running
      ]_vars

\* the completion holds a marker phrase, in whatever case
HasMarkerPhrase(text) ==
    \E i \in 1..Len(text) : text[i] \in {"segun", "Segun"}

\* the round that is taken is a round without invocation whose completion
\* holds a marker phrase
MarkerRound ==
    /\ pc = "loop"
    /\ requests' = requests + 1
    /\ function_calls' = <<>>
    /\ HasMarkerPhrase(agent_response')

\* C19 as stated: in a round without invocation whose completion holds a
\* marker phrase, the corrective message appended to the window is the
\* escalated one, the same as when the counter reaches 2.
C19_MarkerGivesEscalated ==
    [][MarkerRound =>
          current_messages' = current_messages \o
              <<Msg("assistant", agent_response'),
                Msg("user", EscalatedMessage)>>
      ]_vars

\* C19 amended: in a round without invocation whose completion, lowercased,
\* holds a marker phrase and which is not the second such round in a row,
\* the corrective message appended in that round is the final-answer
\* message, which is neither the escalated nor the continue message, and
\* the counter goes up by one; when the round is the second in a row the
\* escalated message is appended and the counter is reset.
C19_MarkerGivesFinalAnswerMessage ==
    /\ FinalAnswerMessage \notin {EscalatedMessage, ContinueMessage}
    /\ [][MarkerRound =>
             IF consecutive_no_reply + 1 < 2
             THEN /\ current_messages' = current_messages \o
                         <<Msg("assistant", agent_response'),
                           Msg("user", FinalAnswerMessage)>>
                  /\ consecutive_no_reply' = consecutive_no_reply + 1
                  /\ pc' = "loop"
             ELSE /\ current_messages' = current_messages \o
                         <<Msg("assistant", agent_response'),
                           Msg("user", EscalatedMessage)>>
                  /\ consecutive_no_reply' = 0
         ]_vars

\* the final-answer message was appended after a completion with the
\* marker phrase in upper case, in the first round of a turn
C19_Witness ==
    /\ pc = "loop" /\ iteration = 1 /\ consecutive_no_reply = 1
    /\ Len(current_messages) >= 2
    /\ current_messages[Len(current_messages) - 1] =
          Msg("assistant", TextMarker)
    /\ Last(current_messages) = Msg("user", FinalAnswerMessage)

\* C20: in a round in which the reply does not fire, every extracted
\* invocation is executed exactly once, in the order of extraction, and the
\* observation message appended to the window holds, for each invocation,
\* the result of that execution.
C20_EachInvocationExecutedOnce ==
    [][(pc = "loop" /\ requests' = requests + 1
           /\ function_calls' # <<>> /\ ~reply_called') =>
          /\ [i \in 1..Len(executions') |-> executions'[i].call]
                = function_calls'
          /\ Last(current_messages').content =
                ResultsMessage([i \in 1..Len(function_calls') |->
                                   ObservationLine(executions'[i])])
      ]_vars

\* the members of a sequence
Range(s) == {s[i] : i \in 1..Len(s)}

\* the detections of the three methods, in the order they are made
Detected(text) == Method1(text) \o Method2(text) \o Method3(text)

\* the position of the first occurrence of x in s
FirstIndex(s, x) == MinOf({i \in 1..Len(s) : s[i] = x})

\* the spans <<a, b>> of the stripped, non-empty lines of a text
LineSpans(text) ==
    {sp \in (1..Len(text)) \X (1..Len(text)) :
        /\ sp[1] <= sp[2]
        /\ ~IsSpace(text[sp[1]]) /\ ~IsSpace(text[sp[2]])
        /\ \A k \in sp[1]..sp[2] : text[k] # NL
        /\ \A k \in 1..(sp[1] - 1) :
              (\A m \in k..(sp[1] - 1) : text[m] # NL) => IsSpace(text[k])
        /\ \A k \in (sp[2] + 1)..Len(text) :
              (\A m \in (sp[2] + 1)..k : text[m] # NL) => IsSpace(text[k])}

\* the stripped line of a span
LineOf(text, sp) == SubSeq(text, sp[1], sp[2])

\* the span of the call Method 2 detects at position i, <<>> when it
\* detects none there
DirectSpan(text, i) ==
    IF /\ InRegistry(<<text[i]>>)
       /\ (i = 1 \/ ~IsWord(text[i - 1]))
       /\ OpenAfter(text, i) # 0
       /\ ScanParens(text, OpenAfter(text, i), 0) # 0
    THEN <<i, ScanParens(text, OpenAfter(text, i), 0)>>
    ELSE <<>>

\* C21: for every completion text, _extract_function_calls returns a
\* sequence without two equal invocations, in which every detected
\* invocation stands at the place of its first detection, and a call that
\* Method 2 and the line scan both detect at one position of the text is
\* returned as one invocation, so that it is dispatched once.
C21_DetectedCallReturnedOnce ==
    LET e == function_calls
    IN  /\ \A i, j \in 1..Len(e) : i # j => e[i] # e[j]
        /\ Range(e) = Range(Detected(agent_response))
        /\ \A i, j \in 1..Len(e) :
              i < j => FirstIndex(Detected(agent_response), e[i])
                          < FirstIndex(Detected(agent_response), e[j])
        /\ \A sp \in LineSpans(agent_response) :
              (/\ MatchCall(LineOf(agent_response, sp)).ok
               /\ InRegistry(MatchCall(LineOf(agent_response, sp)).name)
               /\ DirectSpan(agent_response, sp[1]) # <<>>)
                 => DirectSpan(agent_response, sp[1]) = sp

\* C22 as stated: every stripped line of the completion that matches
\* identifier(...) is extracted, whether its identifier is registered or
\* not.
C22_EveryCallLineExtracted ==
    \A sp \in LineSpans(agent_response) :
        MatchCall(LineOf(agent_response, sp)).ok
            => LineOf(agent_response, sp) \in Range(function_calls)

\* C22 amended: a stripped line of the completion that begins with
\* identifier(...) is extracted exactly when its identifier is a registered
\* name or the line stands in a fenced python block.
C22_CallLineExtractedIffRegisteredOrFenced ==
    \A sp \in LineSpans(agent_response) :
        MatchCall(LineOf(agent_response, sp)).ok
            => (LineOf(agent_response, sp) \in Range(function_calls)
                  <=> \/ InRegistry(MatchCall(LineOf(agent_response, sp)).name)
                      \/ LineOf(agent_response, sp)
                            \in Range(Method1(agent_response)))

\* a line that calls a name that is not registered was scanned and nothing
\* was extracted
C22_Witness ==
    /\ agent_response = <<SP, "restar", LP, RP, NL>>
    /\ function_calls = <<>>

\* C23: send_message resets the reply flag and the final answer when it
\* begins, and what a turn returns is the abandonment text when no reply
\* fired in the turn, or else the argument of the reply that fired in the
\* last round of that turn: never what an earlier turn left.
C23_ResultComesFromItsTurn ==
    /\ [][turns' = turns + 1 =>
             ~reply_called' /\ final_response' = <<>>]_vars
    /\ [][(pc = "loop" /\ pc' = "idle") =>
             IF reply_called
             THEN /\ executions # <<>>
                  /\ IsReplyCall(Last(executions).call)
                  /\ result' = ExecuteFunction(Last(executions).call, FALSE,
                                   <<>>, DefaultOutcome).final_response
             ELSE result' = AbandonText
         ]_vars

\* a second turn was abandoned after a first turn that the reply ended
C23_Witness ==
    /\ Returned /\ turns = 2 /\ Len(exchanges) = 2
    /\ exchanges[1][2].content = <<"a">>
    /\ ~reply_called /\ result = AbandonText

\* C24: for history_limit >= 1, whenever no call is running the history is
\* the system message followed by user and assistant messages that
\* alternate, the first a user message and the last an assistant message:
\* its length is odd and the system message occurs once.
C24_HistoryAlternates ==
    (pc = "idle" /\ history_limit >= 1) =>
        /\ Len(history) % 2 = 1
        /\ history[1] = SystemMessage
        /\ \A i \in 2..Len(history) :
              history[i].role = IF i % 2 = 0 THEN "user" ELSE "assistant"

\* a turn has returned whose history was trimmed, history_limit being 1 or
\* more
C24_Witness ==
    /\ Returned /\ history_limit >= 1
    /\ pre_trim # None
    /\ Len(pre_trim) > Len(history)
    /\ Len(history) = 2 * history_limit + 1

\* the number of entries of a list of tools that are the built-in reply
BuiltinReplies(tl) ==
    Cardinality({i \in 1..Len(tl) : tl[i] = BuiltinReply})

\* C25: constructing an agent leaves the list of the caller as it was
\* passed, and every agent constructed with that list has one built-in
\* reply among its tools and the documentation the first agent has.
C25_CallerListUnchanged ==
    /\ caller_list = caller_tools
    /\ BuiltinReplies(SelfTools) = 1
    /\ \A k \in 1..Len(agents) :
          agents[k].arg = "list" =>
              /\ BuiltinReplies(agents[k].tools) = 1
              /\ agents[k].tools_documentation = Documentation

\* the text, stripped, is the prefix followed by a call of a registered name
CallsRegisteredTool(text, names) ==
    /\ Strip(text) # <<>>
    /\ Strip(text)[1] \in {FN, FNU}
    /\ MatchCall(SkipSpaces(Tail(Strip(text)))).ok
    /\ IsRegistered(names, MatchCall(SkipSpaces(Tail(Strip(text)))).name)

\* C26: every call of BasicAgent.chat issues one completion request, and a
\* completion in which no call of a registered tool is recognised is the
\* answer: chat returns it as it is and appends it to chat_history as the
\* assistant message, right after the user message, and nothing else.
C26_NoCallCompletionIsFinal ==
    [][ChatCalls' = ChatCalls + 1 =>
          /\ chat_call'[1].requests = 1
          /\ (/\ ~chat_call'[1].response.failed
              /\ ~CallsRegisteredTool(AiReply(chat_call'[1].response),
                                      basic_tools))
                => /\ chat_call'[1].returned = AiReply(chat_call'[1].response)
                   /\ chat_history' = chat_history \o
                         <<Msg("user", chat_call'[1].user_input),
                           Msg("assistant",
                               AiReply(chat_call'[1].response))>>
      ]_vars

\* chat has returned, as it is, a completion that calls a name that is
\* not registered, sumar being registered
C26_Witness ==
    /\ chat_call # <<>>
    /\ IsRegistered(basic_tools, <<"sumar">>)
    /\ chat_call[1].response =
          [failed |-> FALSE, text |-> <<FN, SP, "restar", LP, "1", RP>>]
    /\ chat_call[1].returned = <<FN, SP, "restar", LP, "1", RP>>
    /\ Last(chat_history) =
          Msg("assistant", <<FN, SP, "restar", LP, "1", RP>>)

\* C27: after any calls of BasicAgent.chat, failed requests included,
\* chat_history alternates user and assistant messages, the first a user
\* message, and its last message is the assistant message that holds what
\* the last call returned.
C27_ChatHistoryAlternates ==
    /\ Len(chat_history) % 2 = 0
    /\ \A i \in 1..Len(chat_history) :
          chat_history[i].role = IF i % 2 = 1 THEN "user" ELSE "assistant"
    /\ chat_call # <<>> =>
          Last(chat_history) = Msg("assistant", chat_call[1].returned)

====
